---- MODULE Spec2Model ----
(***************************************************************************)
(* Supply-chain provenance graph builder of backend/posts/router.py:       *)
(* fetch_all_crate_accounts feeds build_supply_chain_graph, which indexes  *)
(* the crate records, seeds a breadth-first pass from the root crates,     *)
(* repairs the depth of unvisited crates, and traces one lineage per       *)
(* crate.  Public keys are modelled as the integers 1..NumKeys; their      *)
(* numeric order stands for the lexicographic order of the key strings.    *)
(***************************************************************************)
EXTENDS Integers, Sequences, FiniteSets, TLC

\* ------------------------------------------------------------------ bounds
NumKeys == 3
MaxRecords == 3
MaxParents == 2
MaxChildren == 2
MaxEdges == 3
MaxWeight == 1

\* the second specification: records that differ in the fields the builder
\* only copies, on a smaller edge budget
MaxOpaque == 2
MaxOpaqueEdges == 2

\* the third specification: concurrent invocations on small snapshots
NumCalls == 2
NumPairKeys == 2
MaxPairRecords == 2
MaxPairEdges == 2

\* the fourth specification: the reader on raw accounts
NumReaderKeys == 3
MaxAccounts == 3

\* the fifth specification: snapshots of a ledger whose child_crates lists are
\* the back-references of the parent_crates lists, every key present once
NumLedgerKeys == 4
MaxLedgerEdges == 3

\* the Anchor discriminator that precedes the record in the account data
DiscriminatorLen == 8

Keys == 1..NumKeys
Weights == 1..MaxWeight

NoGraph == [total_crates |-> -1]

NoResponse == [status |-> 0]

Endpoints == {"get-all-crates", "get-crate-history"}

\* a raw account of accounts_response.value: the type of its data, whether a
\* base64 string decodes, the length of the decoded bytes, whether the
\* CrateRecord decoder accepts what follows the discriminator
AccountInfos ==
    [pubkey : 1..NumReaderKeys,
     data_type : {"list", "str", "other"},
     valid_base64 : BOOLEAN,
     length : {DiscriminatorLen - 1, DiscriminatorLen},
     decodable : BOOLEAN]

NoReader == [pc |-> "request", accounts |-> <<>>, n |-> 1, crates |-> <<>>,
             cause |-> "none"]

\* the invocations of build_supply_chain_graph that run at the same time
Calls == 1..NumCalls

NoCall == [crates |-> <<>>, pc |-> "idle", i |-> 1, graph |-> NoGraph]

\* the working structures of one invocation
NoLocals ==
    [crate_map |-> <<>>, order |-> <<>>, root_crates |-> {}, visited |-> {},
     seeded |-> {}, queue |-> <<>>, lineages |-> <<>>]

\* ----------------------------------------------------------------- helpers
Range(s) == {s[n] : n \in 1..Len(s)}

Last(s) == s[Len(s)]

Reverse(s) == [n \in 1..Len(s) |-> s[Len(s) + 1 - n]]

\* duplicate-free key lists of at most n entries
KeyLists(n) ==
    {s \in UNION {[1..m -> Keys] : m \in 0..n} :
        \A a, b \in 1..Len(s) : a # b => s[a] # s[b]}

RECURSIVE EdgeCount(_)
EdgeCount(cs) ==
    IF cs = <<>> THEN 0
    ELSE Len(Head(cs).parent_crates) + Len(Head(cs).child_crates) + EdgeCount(Tail(cs))

\* crate_dict as produced by the account decoder
CrateDicts ==
    [pubkey : Keys, weight : Weights,
     parent_crates : KeyLists(MaxParents), child_crates : KeyLists(MaxChildren)]

\* the same records in any order
Reorderings(s) ==
    {[n \in 1..Len(s) |-> s[f[n]]] :
        f \in {g \in [1..Len(s) -> 1..Len(s)] : \A a, b \in 1..Len(s) : a # b => g[a] # g[b]}}

\* the keys of S in ascending order
RECURSIVE SortedSeq(_)
SortedSeq(S) ==
    IF S = {} THEN <<>>
    ELSE LET least == CHOOSE x \in S : \A y \in S : x <= y
         IN <<least>> \o SortedSeq(S \ {least})

\* the number of entries of the lists f[1], ..., f[n]
RECURSIVE TotalLen(_, _)
TotalLen(f, n) == IF n = 0 THEN 0 ELSE Len(f[n]) + TotalLen(f, n - 1)

\* the parent lists of a ledger: duplicate-free, at most MaxParents entries
\* per key and MaxLedgerEdges entries in all
LedgerParents ==
    LET lists == {l \in UNION {[1..m -> 1..NumLedgerKeys] : m \in 0..MaxParents} :
                     \A a, b \in 1..Len(l) : a # b => l[a] # l[b]}
    IN {f \in [1..NumLedgerKeys -> lists] : TotalLen(f, NumLedgerKeys) <= MaxLedgerEdges}

\* the decoded account of key k in a ledger with parent lists f
LedgerRecord(f, k) ==
    [pubkey |-> k, weight |-> 1, parent_crates |-> f[k],
     child_crates |-> SortedSeq({c \in 1..NumLedgerKeys : k \in Range(f[c])})]

\* ------------------------------------------------------------------- state
VARIABLES
    crates,        \* list returned by fetch_all_crate_accounts (the snapshot)
    pc,            \* position of the running request
    i,             \* index of the running for-loop
    crate_map,     \* pubkey -> CrateNode
    order,         \* insertion order of crate_map's keys
    root_crates,   \* set of root pubkeys
    visited,       \* BFS visited set
    seeded,        \* roots already taken by the seeding loop
    queue,         \* BFS deque of <<pubkey, depth>>
    lineages,      \* pubkey -> lineage path
    graph,         \* SupplyChainGraph returned by the build
    prev,          \* graph returned for the previous fetch of the same ledger
    response,      \* HTTP response of the running request
    calls,         \* concurrent invocations of the build: snapshot, position, result
    store,         \* the working structures, by the place that holds them
    reader         \* fetch_all_crate_accounts on raw accounts: position, list built

vars == <<crates, pc, i, crate_map, order, root_crates, visited, seeded, queue,
          lineages, graph, prev, response, calls, store, reader>>

work == <<crate_map, order, root_crates, visited, seeded, queue, lineages>>

Init ==
    /\ crates = <<>>
    /\ pc = "fetch"
    /\ i = 1
    /\ crate_map = <<>>
    /\ order = <<>>
    /\ root_crates = {}
    /\ visited = {}
    /\ seeded = {}
    /\ queue = <<>>
    /\ lineages = <<>>
    /\ graph = NoGraph
    /\ prev = NoGraph
    /\ response = NoResponse
    /\ calls = [j \in Calls |-> NoCall]
    /\ store = [s \in Calls |-> NoLocals]
    /\ reader = NoReader

\* ------------------------------------------------- fetch_all_crate_accounts
\* one iteration of the deserialisation loop: a decoded account is appended
FetchAccount ==
    /\ pc = "fetch"
    /\ Len(crates) < MaxRecords
    /\ \E crate_dict \in CrateDicts :
        /\ EdgeCount(crates) + Len(crate_dict.parent_crates)
             + Len(crate_dict.child_crates) <= MaxEdges
        /\ crates' = Append(crates, crate_dict)
    /\ UNCHANGED <<pc, i, work, graph, prev, response, calls, store, reader>>

\* the same iteration for the second specification: weight stands for the
\* copied fields (crate_id, authority, weight, timestamp, hash, ipfs_cid,
\* operation_type, parent_weights, split_distribution) and takes several values
FetchOpaqueAccount ==
    /\ pc = "fetch"
    /\ Len(crates) < MaxRecords
    /\ \E crate_dict \in [pubkey : Keys, weight : 1..MaxOpaque,
                           parent_crates : KeyLists(MaxParents),
                           child_crates : KeyLists(MaxChildren)] :
        /\ EdgeCount(crates) + Len(crate_dict.parent_crates)
             + Len(crate_dict.child_crates) <= MaxOpaqueEdges
        /\ crates' = Append(crates, crate_dict)
    /\ UNCHANGED <<pc, i, work, graph, prev, response, calls, store, reader>>

\* the whole loop for the fifth specification: the accounts of a ledger, in
\* any order
FetchLedger ==
    /\ pc = "fetch"
    /\ crates = <<>>
    /\ \E f \in LedgerParents :
          crates' \in Reorderings([k \in 1..NumLedgerKeys |-> LedgerRecord(f, k)])
    /\ UNCHANGED <<pc, i, work, graph, prev, response, calls, store, reader>>

\* the reader returns; the facade builds only a non-empty snapshot
FetchReturn ==
    /\ pc = "fetch"
    /\ crates # <<>>
    /\ pc' = "index"
    /\ i' = 1
    /\ UNCHANGED <<crates, work, graph, prev, response, calls, store, reader>>

\* ------------------------------------------------ build_supply_chain_graph
IsRootRecord(crate_data) == Len(crate_data.parent_crates) = 0

\* a constructor that leaves weight at a default instead of copying it
CrateNode_default_weight(crate_data) ==
    [pubkey |-> crate_data.pubkey,
     weight |-> 1,
     parent_crates |-> crate_data.parent_crates,
     child_crates |-> crate_data.child_crates,
     is_root |-> IsRootRecord(crate_data),
     depth |-> 0]

CrateNode(crate_data) ==
    [pubkey |-> crate_data.pubkey,
     weight |-> crate_data.weight,
     parent_crates |-> crate_data.parent_crates,
     child_crates |-> crate_data.child_crates,
     is_root |-> IsRootRecord(crate_data),
     depth |-> 0]

\* crate_map[pubkey] = node on a Python dict: a new key is appended to the
\* iteration order, an existing key keeps its place and gets the new value
MapPut(m, k, node) == [x \in (DOMAIN m) \cup {k} |-> IF x = k THEN node ELSE m[x]]

OrderPut(o, k) == IF k \in Range(o) THEN o ELSE Append(o, k)

\* first pass, one record per step
IndexStep ==
    /\ pc = "index"
    /\ i <= Len(crates)
    /\ LET crate_data == crates[i]
           pubkey == crate_data.pubkey
       IN /\ crate_map' = MapPut(crate_map, pubkey, CrateNode(crate_data))
          /\ order' = OrderPut(order, pubkey)
          /\ root_crates' = IF IsRootRecord(crate_data)
                            THEN root_crates \cup {pubkey} ELSE root_crates
    /\ i' = i + 1
    /\ UNCHANGED <<crates, pc, visited, seeded, queue, lineages, graph, prev, response, calls, store, reader>>

IndexDone ==
    /\ pc = "index"
    /\ i > Len(crates)
    /\ pc' = "seed"
    /\ UNCHANGED <<crates, i, work, graph, prev, response, calls, store, reader>>

\* "for root_pubkey in root_crates": a Python set of strings is iterated in
\* hash order, so any root not yet taken may come next
SeedStep ==
    /\ pc = "seed"
    /\ \E root_pubkey \in root_crates \ seeded :
        /\ seeded' = seeded \cup {root_pubkey}
        /\ queue' = Append(queue, <<root_pubkey, 0>>)
        /\ visited' = visited \cup {root_pubkey}
        /\ crate_map' = [crate_map EXCEPT ![root_pubkey].depth = 0]
    /\ UNCHANGED <<crates, pc, i, order, root_crates, lineages, graph, prev, response, calls, store, reader>>

SeedDone ==
    /\ pc = "seed"
    /\ root_crates \ seeded = {}
    /\ pc' = "bfs"
    /\ UNCHANGED <<crates, i, work, graph, prev, response, calls, store, reader>>

\* a visit guard that forgets the visited set
ShouldVisit_ignoring_visited(child_pubkey, cm, vis) == child_pubkey \in DOMAIN cm

\* a visit guard that forgets to look the child up in the index
ShouldVisit_ignoring_index(child_pubkey, cm, vis) == child_pubkey \notin vis

\* "child_pubkey in crate_map and child_pubkey not in visited"
ShouldVisit(child_pubkey, cm, vis) == child_pubkey \in DOMAIN cm /\ child_pubkey \notin vis

\* an inner loop that puts a discovered child at the front of the queue
\* (appendleft), which turns the traversal depth-first
RECURSIVE VisitChildren_appendleft(_, _, _, _, _, _)
VisitChildren_appendleft(child_crates, n, depth, cm, vis, q) ==
    IF n > Len(child_crates) THEN [crate_map |-> cm, visited |-> vis, queue |-> q]
    ELSE LET child_pubkey == child_crates[n]
         IN IF ShouldVisit(child_pubkey, cm, vis)
            THEN VisitChildren_appendleft(child_crates, n + 1, depth,
                               [cm EXCEPT ![child_pubkey].depth = depth + 1],
                               vis \cup {child_pubkey},
                               <<<<child_pubkey, depth + 1>>>> \o q)
            ELSE VisitChildren_appendleft(child_crates, n + 1, depth, cm, vis, q)

\* the inner loop over current_node.child_crates, from child number n on
RECURSIVE VisitChildren(_, _, _, _, _, _)
VisitChildren(child_crates, n, depth, cm, vis, q) ==
    IF n > Len(child_crates) THEN [crate_map |-> cm, visited |-> vis, queue |-> q]
    ELSE LET child_pubkey == child_crates[n]
         IN IF ShouldVisit(child_pubkey, cm, vis)
            THEN VisitChildren(child_crates, n + 1, depth,
                               [cm EXCEPT ![child_pubkey].depth = depth + 1],
                               vis \cup {child_pubkey},
                               Append(q, <<child_pubkey, depth + 1>>))
            ELSE VisitChildren(child_crates, n + 1, depth, cm, vis, q)

\* the lookups crate_map[current_pubkey] and crate_map[child_pubkey] of one
\* iteration: a key that is not in crate_map raises KeyError
BfsKeyError(current_pubkey) ==
    IF current_pubkey \notin DOMAIN crate_map THEN TRUE
    ELSE \E child_pubkey \in Range(crate_map[current_pubkey].child_crates) :
            /\ ShouldVisit(child_pubkey, crate_map, visited)
            /\ child_pubkey \notin DOMAIN crate_map

\* one iteration of "while queue": popleft and visit the children
BfsStep ==
    /\ pc = "bfs"
    /\ queue # <<>>
    /\ LET current_pubkey == Head(queue)[1]
           depth == Head(queue)[2]
       IN IF BfsKeyError(current_pubkey)
          THEN /\ pc' = "error"
               /\ UNCHANGED <<crate_map, visited, queue>>
          ELSE LET current_node == crate_map[current_pubkey]
                   r == VisitChildren(current_node.child_crates, 1, depth,
                                      crate_map, visited, Tail(queue))
               IN /\ crate_map' = r.crate_map
                  /\ visited' = r.visited
                  /\ queue' = r.queue
                  /\ pc' = pc
    /\ UNCHANGED <<crates, i, order, root_crates, seeded, lineages, graph, prev, response, calls, store, reader>>

BfsDone ==
    /\ pc = "bfs"
    /\ queue = <<>>
    /\ pc' = "fallback"
    /\ i' = 1
    /\ UNCHANGED <<crates, work, graph, prev, response, calls, store, reader>>

SetMin(S) == CHOOSE x \in S : \A y \in S : x <= y

\* a minimum that never finds a present parent
MinParentDepth_none_present(node, cm) == -1

\* min((crate_map[p].depth for p in node.parent_crates if p in crate_map), default=-1)
MinParentDepth(node, cm) ==
    LET ds == {cm[p].depth : p \in Range(node.parent_crates) \cap DOMAIN cm}
    IN IF ds = {} THEN -1 ELSE SetMin(ds)

\* an unvisited-node pass that promotes every unvisited crate
HasParents_never(node) == FALSE

\* "if node.parent_crates:" of the unvisited-node pass
HasParents(node) == node.parent_crates # <<>>

\* an unvisited-node pass that flags a crate without any present parent as root
FallbackNode_promoting(node, cm) ==
    IF HasParents(node) /\ MinParentDepth(node, cm) >= 0
    THEN [node EXCEPT !.depth = MinParentDepth(node, cm) + 1]
    ELSE [node EXCEPT !.is_root = TRUE, !.depth = 0]

\* the node as the unvisited-node pass leaves it
FallbackNode(node, cm) ==
    IF HasParents(node)
    THEN [node EXCEPT !.depth = IF MinParentDepth(node, cm) >= 0
                                THEN MinParentDepth(node, cm) + 1 ELSE 0]
    ELSE [node EXCEPT !.is_root = TRUE, !.depth = 0]

\* one iteration of "for pubkey, node in crate_map.items()"
FallbackStep ==
    /\ pc = "fallback"
    /\ i <= Len(order)
    /\ LET pubkey == order[i]
           node == crate_map[pubkey]
       IN IF pubkey \notin visited
          THEN /\ crate_map' = [crate_map EXCEPT ![pubkey] = FallbackNode(node, crate_map)]
               /\ root_crates' = IF HasParents(node) THEN root_crates
                                 ELSE root_crates \cup {pubkey}
          ELSE UNCHANGED <<crate_map, root_crates>>
    /\ i' = i + 1
    /\ UNCHANGED <<crates, pc, order, visited, seeded, queue, lineages, graph, prev, response, calls, store, reader>>

FallbackDone ==
    /\ pc = "fallback"
    /\ i > Len(order)
    /\ pc' = "lineage"
    /\ i' = 1
    /\ UNCHANGED <<crates, work, graph, prev, response, calls, store, reader>>

\* [pubkey] + parent_path for every non-empty parent_path
RECURSIVE PrependAll(_, _)
PrependAll(pubkey, parent_paths) ==
    IF parent_paths = <<>> THEN <<>>
    ELSE (IF Head(parent_paths) # <<>> THEN << <<pubkey>> \o Head(parent_paths) >> ELSE <<>>)
         \o PrependAll(pubkey, Tail(parent_paths))

\* the list of candidate paths of pubkey, each from pubkey back to an endpoint
RECURSIVE trace_to_roots(_, _)
RECURSIVE TraceParents(_, _, _, _)
\* a trace that takes a key missing from crate_map for an endpoint
trace_to_roots_unknown_endpoint(pubkey, visited_path) ==
    IF pubkey \in visited_path THEN <<>>
    ELSE IF pubkey \notin DOMAIN crate_map THEN << <<pubkey>> >>
    ELSE IF crate_map[pubkey].is_root THEN << <<pubkey>> >>
    ELSE IF crate_map[pubkey].parent_crates = <<>> THEN << <<pubkey>> >>
    ELSE LET all_paths == TraceParents(pubkey, crate_map[pubkey].parent_crates, 1,
                                       visited_path \cup {pubkey})
         IN IF all_paths = <<>> THEN << <<pubkey>> >> ELSE all_paths

trace_to_roots(pubkey, visited_path) ==
    IF pubkey \in visited_path THEN <<>>
    ELSE IF pubkey \notin DOMAIN crate_map THEN <<>>
    ELSE IF crate_map[pubkey].is_root THEN << <<pubkey>> >>
    ELSE IF crate_map[pubkey].parent_crates = <<>> THEN << <<pubkey>> >>
    ELSE LET all_paths == TraceParents(pubkey, crate_map[pubkey].parent_crates, 1,
                                       visited_path \cup {pubkey})
         IN IF all_paths = <<>> THEN << <<pubkey>> >> ELSE all_paths

\* the loop "for parent_pubkey in node.parent_crates", from parent number n on
TraceParents(pubkey, parent_crates, n, visited_path) ==
    IF n > Len(parent_crates) THEN <<>>
    ELSE PrependAll(pubkey, trace_to_roots(parent_crates[n], visited_path))
         \o TraceParents(pubkey, parent_crates, n + 1, visited_path)

\* a selection that keeps the last path of minimal length
MinByLen_last(paths) ==
    paths[CHOOSE a \in 1..Len(paths) :
            \A b \in 1..Len(paths) :
                /\ Len(paths[a]) <= Len(paths[b])
                /\ b > a => Len(paths[b]) > Len(paths[a])]

\* min(paths, key=len): the first path of minimal length
MinByLen(paths) ==
    paths[CHOOSE a \in 1..Len(paths) :
            \A b \in 1..Len(paths) :
                /\ Len(paths[a]) <= Len(paths[b])
                /\ b < a => Len(paths[b]) > Len(paths[a])]

Lineage(pubkey) ==
    LET paths == trace_to_roots(pubkey, {})
    IN IF paths # <<>> THEN MinByLen(paths) ELSE <<pubkey>>

\* one iteration of "for pubkey in crate_map"
LineageStep ==
    /\ pc = "lineage"
    /\ i <= Len(order)
    /\ lineages' = MapPut(lineages, order[i], Lineage(order[i]))
    /\ i' = i + 1
    /\ UNCHANGED <<crates, pc, crate_map, order, root_crates, visited, seeded, queue,
                   graph, prev, response, calls, store, reader>>

\* a count of the input records instead of the indexed keys
TotalCrates_of_input(cm) == Len(crates)

\* total_crates=len(crate_map)
TotalCrates(cm) == Cardinality(DOMAIN cm)

\* return SupplyChainGraph(...)
Assemble ==
    /\ pc = "lineage"
    /\ i > Len(order)
    /\ graph' = [total_crates |-> TotalCrates(crate_map),
                 root_crates |-> root_crates,
                 crates |-> crate_map,
                 lineages |-> lineages]
    /\ pc' = "done"
    /\ UNCHANGED <<crates, i, work, prev, response, calls, store, reader>>

\* The next request fetches the same ledger again; get_program_accounts gives
\* no order guarantee, so the records may come in any order.  The build starts
\* from fresh local structures.
Refetch ==
    /\ pc = "done"
    /\ prev = NoGraph
    /\ crates' \in Reorderings(crates)
    /\ prev' = graph
    /\ graph' = NoGraph
    /\ pc' = "index"
    /\ i' = 1
    /\ crate_map' = <<>>
    /\ order' = <<>>
    /\ root_crates' = {}
    /\ visited' = {}
    /\ seeded' = {}
    /\ queue' = <<>>
    /\ lineages' = <<>>
    /\ response' = NoResponse
    /\ UNCHANGED <<calls, store, reader>>

\* --------------------------- build_supply_chain_graph, several invocations
\* The same statements as above, written on the record L of an invocation's
\* working structures instead of the single invocation's variables.

\* crate_map = {}, root_crates = set()
NewIndex(L) == [L EXCEPT !.crate_map = <<>>, !.order = <<>>, !.root_crates = {}]

\* one iteration of the first pass
IndexOne(L, crate_data) ==
    [L EXCEPT !.crate_map = MapPut(L.crate_map, crate_data.pubkey, CrateNode(crate_data)),
              !.order = OrderPut(L.order, crate_data.pubkey),
              !.root_crates = IF IsRootRecord(crate_data)
                              THEN L.root_crates \cup {crate_data.pubkey}
                              ELSE L.root_crates]

\* visited = set(), queue = deque()
NewTraversal(L) == [L EXCEPT !.visited = {}, !.queue = <<>>, !.seeded = {}]

\* the lookups of the statements below raise KeyError on an absent key
RaisesKeyError(L, pubkey) == pubkey \notin DOMAIN L.crate_map

\* one iteration of "for root_pubkey in root_crates"
SeedOne(L, root_pubkey) ==
    [L EXCEPT !.seeded = L.seeded \cup {root_pubkey},
              !.queue = Append(L.queue, <<root_pubkey, 0>>),
              !.visited = L.visited \cup {root_pubkey},
              !.crate_map = [L.crate_map EXCEPT ![root_pubkey].depth = 0]]

\* one iteration of "while queue"
BfsOne(L) ==
    LET current_pubkey == Head(L.queue)[1]
        depth == Head(L.queue)[2]
        r == VisitChildren(L.crate_map[current_pubkey].child_crates, 1, depth,
                           L.crate_map, L.visited, Tail(L.queue))
    IN [L EXCEPT !.crate_map = r.crate_map, !.visited = r.visited, !.queue = r.queue]

\* one iteration of the unvisited-node pass
FallbackOne(L, pubkey) ==
    LET node == L.crate_map[pubkey]
    IN IF pubkey \in L.visited THEN L
       ELSE [L EXCEPT !.crate_map = [L.crate_map EXCEPT
                                        ![pubkey] = FallbackNode(node, L.crate_map)],
                      !.root_crates = IF HasParents(node) THEN L.root_crates
                                      ELSE L.root_crates \cup {pubkey}]

\* lineages = {}
NewLineages(L) == [L EXCEPT !.lineages = <<>>]

\* trace_to_roots as a closure over the crate_map cm of its invocation
RECURSIVE trace_to_roots_in(_, _, _)
RECURSIVE TraceParentsIn(_, _, _, _, _)
trace_to_roots_in(cm, pubkey, visited_path) ==
    IF pubkey \in visited_path THEN <<>>
    ELSE IF pubkey \notin DOMAIN cm THEN <<>>
    ELSE IF cm[pubkey].is_root THEN << <<pubkey>> >>
    ELSE IF cm[pubkey].parent_crates = <<>> THEN << <<pubkey>> >>
    ELSE LET all_paths == TraceParentsIn(cm, pubkey, cm[pubkey].parent_crates, 1,
                                         visited_path \cup {pubkey})
         IN IF all_paths = <<>> THEN << <<pubkey>> >> ELSE all_paths

TraceParentsIn(cm, pubkey, parent_crates, n, visited_path) ==
    IF n > Len(parent_crates) THEN <<>>
    ELSE PrependAll(pubkey, trace_to_roots_in(cm, parent_crates[n], visited_path))
         \o TraceParentsIn(cm, pubkey, parent_crates, n + 1, visited_path)

\* one iteration of "for pubkey in crate_map" of the third pass
LineageOne(L, pubkey) ==
    LET paths == trace_to_roots_in(L.crate_map, pubkey, {})
    IN [L EXCEPT !.lineages = MapPut(L.lineages, pubkey,
                                     IF paths # <<>> THEN MinByLen(paths)
                                     ELSE <<pubkey>>)]

\* return SupplyChainGraph(...)
GraphOf(L) ==
    [total_crates |-> TotalCrates(L.crate_map),
     root_crates |-> L.root_crates,
     crates |-> L.crate_map,
     lineages |-> L.lineages]

\* the whole body of build_supply_chain_graph, run without interruption
RECURSIVE IndexAll(_, _, _)
IndexAll(L, cs, n) ==
    IF n > Len(cs) THEN L ELSE IndexAll(IndexOne(L, cs[n]), cs, n + 1)

RECURSIVE SeedAll(_)
SeedAll(L) ==
    IF L.root_crates \ L.seeded = {} THEN L
    ELSE SeedAll(SeedOne(L, CHOOSE root_pubkey \in L.root_crates \ L.seeded : TRUE))

RECURSIVE BfsAll(_)
BfsAll(L) == IF L.queue = <<>> THEN L ELSE BfsAll(BfsOne(L))

RECURSIVE FallbackAll(_, _)
FallbackAll(L, n) ==
    IF n > Len(L.order) THEN L ELSE FallbackAll(FallbackOne(L, L.order[n]), n + 1)

RECURSIVE LineageAll(_, _)
LineageAll(L, n) ==
    IF n > Len(L.order) THEN L ELSE LineageAll(LineageOne(L, L.order[n]), n + 1)

RunAlone(cs) ==
    LET indexed == IndexAll(NewIndex(NoLocals), cs, 1)
        traversed == BfsAll(SeedAll(NewTraversal(indexed)))
        settled == FallbackAll(traversed, 1)
    IN GraphOf(LineageAll(NewLineages(settled), 1))

\* the snapshots of the concurrent invocations
PairDicts ==
    {d \in [pubkey : 1..NumPairKeys, weight : {1},
            parent_crates : KeyLists(MaxParents), child_crates : KeyLists(MaxChildren)] :
        Range(d.parent_crates) \cup Range(d.child_crates) \subseteq 1..NumPairKeys}

PairSnapshots ==
    {cs \in UNION {[1..n -> PairDicts] : n \in 1..MaxPairRecords} :
        EdgeCount(cs) <= MaxPairEdges}

\* working structures kept at module level, one set for all invocations
Slot_module_level(j) == 1

\* where invocation j keeps its working structures: they are locals, created
\* by the invocation itself
Slot(j) == j

single == <<crates, pc, i, work, graph, prev, response, reader>>

\* an invocation starts and creates its index; requests are numbered in the
\* order they start
PairCall ==
    \E j \in Calls :
        /\ calls[j].pc = "idle"
        /\ \A k \in Calls : k < j => calls[k].pc # "idle"
        /\ \E cs \in PairSnapshots :
              calls' = [calls EXCEPT ![j] = [crates |-> cs, pc |-> "index",
                                             i |-> 1, graph |-> NoGraph]]
        /\ store' = [store EXCEPT ![Slot(j)] = NewIndex(@)]
        /\ UNCHANGED single

PairIndexStep ==
    \E j \in Calls :
        /\ calls[j].pc = "index"
        /\ calls[j].i <= Len(calls[j].crates)
        /\ store' = [store EXCEPT ![Slot(j)] = IndexOne(@, calls[j].crates[calls[j].i])]
        /\ calls' = [calls EXCEPT ![j].i = @ + 1]
        /\ UNCHANGED single

PairIndexDone ==
    \E j \in Calls :
        /\ calls[j].pc = "index"
        /\ calls[j].i > Len(calls[j].crates)
        /\ store' = [store EXCEPT ![Slot(j)] = NewTraversal(@)]
        /\ calls' = [calls EXCEPT ![j].pc = "seed"]
        /\ UNCHANGED single

PairSeedStep ==
    \E j \in Calls :
        /\ calls[j].pc = "seed"
        /\ \E root_pubkey \in store[Slot(j)].root_crates \ store[Slot(j)].seeded :
              IF RaisesKeyError(store[Slot(j)], root_pubkey)
              THEN /\ calls' = [calls EXCEPT ![j].pc = "error"]
                   /\ UNCHANGED store
              ELSE /\ store' = [store EXCEPT ![Slot(j)] = SeedOne(@, root_pubkey)]
                   /\ UNCHANGED calls
        /\ UNCHANGED single

PairSeedDone ==
    \E j \in Calls :
        /\ calls[j].pc = "seed"
        /\ store[Slot(j)].root_crates \ store[Slot(j)].seeded = {}
        /\ calls' = [calls EXCEPT ![j].pc = "bfs"]
        /\ UNCHANGED <<store, single>>

PairBfsStep ==
    \E j \in Calls :
        /\ calls[j].pc = "bfs"
        /\ store[Slot(j)].queue # <<>>
        /\ IF RaisesKeyError(store[Slot(j)], Head(store[Slot(j)].queue)[1])
           THEN /\ calls' = [calls EXCEPT ![j].pc = "error"]
                /\ UNCHANGED store
           ELSE /\ store' = [store EXCEPT ![Slot(j)] = BfsOne(@)]
                /\ UNCHANGED calls
        /\ UNCHANGED single

PairBfsDone ==
    \E j \in Calls :
        /\ calls[j].pc = "bfs"
        /\ store[Slot(j)].queue = <<>>
        /\ calls' = [calls EXCEPT ![j].pc = "fallback", ![j].i = 1]
        /\ UNCHANGED <<store, single>>

PairFallbackStep ==
    \E j \in Calls :
        /\ calls[j].pc = "fallback"
        /\ calls[j].i <= Len(store[Slot(j)].order)
        /\ LET pubkey == store[Slot(j)].order[calls[j].i]
           IN IF RaisesKeyError(store[Slot(j)], pubkey)
              THEN /\ calls' = [calls EXCEPT ![j].pc = "error"]
                   /\ UNCHANGED store
              ELSE /\ store' = [store EXCEPT ![Slot(j)] = FallbackOne(@, pubkey)]
                   /\ calls' = [calls EXCEPT ![j].i = @ + 1]
        /\ UNCHANGED single

PairFallbackDone ==
    \E j \in Calls :
        /\ calls[j].pc = "fallback"
        /\ calls[j].i > Len(store[Slot(j)].order)
        /\ store' = [store EXCEPT ![Slot(j)] = NewLineages(@)]
        /\ calls' = [calls EXCEPT ![j].pc = "lineage", ![j].i = 1]
        /\ UNCHANGED single

PairLineageStep ==
    \E j \in Calls :
        /\ calls[j].pc = "lineage"
        /\ calls[j].i <= Len(store[Slot(j)].order)
        /\ store' = [store EXCEPT ![Slot(j)] =
                        LineageOne(@, store[Slot(j)].order[calls[j].i])]
        /\ calls' = [calls EXCEPT ![j].i = @ + 1]
        /\ UNCHANGED single

PairReturn ==
    \E j \in Calls :
        /\ calls[j].pc = "lineage"
        /\ calls[j].i > Len(store[Slot(j)].order)
        /\ calls' = [calls EXCEPT ![j].pc = "done", ![j].graph = GraphOf(store[Slot(j)])]
        /\ UNCHANGED <<store, single>>

\* --------------------------------- fetch_all_crate_accounts, raw accounts
\* an inner handler that lets a decoder exception escape
EntryOutcome_decode_uncaught(account_info) ==
    IF account_info.data_type = "other" THEN "skip"
    ELSE IF account_info.data_type = "str" /\ ~account_info.valid_base64 THEN "skip"
    ELSE IF account_info.length < DiscriminatorLen THEN "skip"
    ELSE IF ~account_info.decodable THEN "raise"
    ELSE "append"

\* the body of the loop for one account: "append" the decoded crate_dict,
\* "skip" by continue (directly or from the inner except Exception), or "raise"
\* out of the loop; the statements that examine the data are all inside the
\* inner try
EntryOutcome(account_info) ==
    IF account_info.data_type = "other" THEN "skip"
    ELSE IF account_info.data_type = "str" /\ ~account_info.valid_base64 THEN "skip"
    ELSE IF account_info.length < DiscriminatorLen THEN "skip"
    ELSE IF ~account_info.decodable THEN "skip"
    ELSE "append"

\* crate_dict of a decoded account; the decoded record is identified by the
\* account it came from
CrateDictOf(account_info) ==
    [pubkey |-> account_info.pubkey, weight |-> 1,
     parent_crates |-> <<>>, child_crates |-> <<>>]

\* client.get_program_accounts returns the accounts
ReaderRequest ==
    /\ reader.pc = "request"
    /\ \E accounts \in UNION {[1..n -> AccountInfos] : n \in 0..MaxAccounts} :
          reader' = [reader EXCEPT !.pc = "loop", !.accounts = accounts,
                                   !.n = 1, !.crates = <<>>]
    /\ UNCHANGED <<crates, pc, i, work, graph, prev, response, calls, store>>

\* load_program, get_program_accounts or client.close() raise: the outer
\* except re-raises
ReaderBulkFail ==
    /\ \/ reader.pc = "request"
       \/ reader.pc = "loop" /\ reader.n > Len(reader.accounts)
    /\ reader' = [reader EXCEPT !.pc = "raised", !.cause = "bulk"]
    /\ UNCHANGED <<crates, pc, i, work, graph, prev, response, calls, store>>

\* one iteration of "for account_info in accounts_response.value"
ReaderStep ==
    /\ reader.pc = "loop"
    /\ reader.n <= Len(reader.accounts)
    /\ LET account_info == reader.accounts[reader.n]
           outcome == EntryOutcome(account_info)
       IN reader' =
            IF outcome = "raise"
            THEN [reader EXCEPT !.pc = "raised", !.cause = "entry"]
            ELSE [reader EXCEPT !.n = @ + 1,
                                !.crates = IF outcome = "append"
                                           THEN Append(@, CrateDictOf(account_info))
                                           ELSE @]
    /\ UNCHANGED <<crates, pc, i, work, graph, prev, response, calls, store>>

\* client.close(); return crates
ReaderReturn ==
    /\ reader.pc = "loop"
    /\ reader.n > Len(reader.accounts)
    /\ reader' = [reader EXCEPT !.pc = "returned"]
    /\ UNCHANGED <<crates, pc, i, work, graph, prev, response, calls, store>>

\* ------------------------------------------- get_all_crates, get_crate_history
\* an HTTPException raised by the handler
ErrorResponse(endpoint, status) ==
    [endpoint |-> endpoint, status |-> status, success |-> FALSE]

\* raise HTTPException(404) of get_crate_history
NotFoundResponse(crate_pubkey) ==
    [endpoint |-> "get-crate-history", crate_pubkey |-> crate_pubkey,
     status |-> 404, success |-> FALSE]

\* a handler that answers a failure with an (empty) success response
FailureResponse_success(endpoint) ==
    [endpoint |-> endpoint, status |-> 200, success |-> TRUE]

\* "except Exception" of both handlers: any failure becomes a 500
FailureResponse(endpoint) == ErrorResponse(endpoint, 500)

\* "if not crates" of both handlers
EmptyResponse(endpoint) ==
    IF endpoint = "get-all-crates"
    THEN [endpoint |-> endpoint, status |-> 200, success |-> TRUE,
          graph |-> [total_crates |-> 0, root_crates |-> {}, crates |-> <<>>,
                     lineages |-> <<>>]]
    ELSE ErrorResponse(endpoint, 404)

\* a CrateKnown that never reports a missing key
CrateKnown_always(g, crate_pubkey) == TRUE

\* "if crate_pubkey not in graph.crates" negated
CrateKnown(g, crate_pubkey) == crate_pubkey \in DOMAIN g.crates

\* graph.lineages.get(crate_pubkey, [crate_pubkey])
LineagePath(g, crate_pubkey) ==
    IF crate_pubkey \in DOMAIN g.lineages THEN g.lineages[crate_pubkey]
    ELSE <<crate_pubkey>>

\* [graph.crates[pubkey] for pubkey in reversed(lineage_path) if pubkey in graph.crates]
History(g, lineage_path) ==
    LET history_path == Reverse(lineage_path)
        present == SelectSeq(history_path, LAMBDA pubkey : pubkey \in DOMAIN g.crates)
    IN [n \in 1..Len(present) |-> g.crates[present[n]]]

CrateHistoryResponse(g, crate_pubkey) ==
    LET current_crate == g.crates[crate_pubkey]
        lineage_path == LineagePath(g, crate_pubkey)
        history == History(g, lineage_path)
    IN [endpoint |-> "get-crate-history", crate_pubkey |-> crate_pubkey,
        status |-> 200, success |-> TRUE,
        current_crate |-> current_crate,
        lineage_path |-> lineage_path,
        history |-> history,
        root_crate |-> IF history # <<>> THEN history[1] ELSE current_crate,
        depth |-> current_crate.depth,
        is_root |-> current_crate.is_root]

\* the fetch raises (bulk request before the loop, client.close() after it);
\* the exception reaches the handler's "except Exception"
FetchFail ==
    /\ pc = "fetch"
    /\ \E endpoint \in Endpoints : response' = FailureResponse(endpoint)
    /\ pc' = "failed"
    /\ UNCHANGED <<crates, i, work, graph, prev, calls, store, reader>>

\* the fetch returns an empty list: no build
FetchReturnEmpty ==
    /\ pc = "fetch"
    /\ crates = <<>>
    /\ \E endpoint \in Endpoints : response' = EmptyResponse(endpoint)
    /\ pc' = "responded"
    /\ UNCHANGED <<crates, i, work, graph, prev, calls, store, reader>>

\* get_all_crates after the build returned or raised
GetAllCrates ==
    /\ pc \in {"done", "error"}
    /\ response' = IF pc = "error" THEN FailureResponse("get-all-crates")
                   ELSE [endpoint |-> "get-all-crates", status |-> 200,
                         success |-> TRUE, graph |-> graph]
    /\ pc' = IF pc = "error" THEN "failed" ELSE "responded"
    /\ UNCHANGED <<crates, i, work, graph, prev, calls, store, reader>>

\* get_crate_history after the build returned or raised; a KeyError on
\* graph.crates[crate_pubkey] is caught by "except Exception"
GetCrateHistory ==
    /\ pc \in {"done", "error"}
    /\ \E crate_pubkey \in Keys :
          response' = IF pc = "error" THEN FailureResponse("get-crate-history")
                      ELSE IF ~CrateKnown(graph, crate_pubkey)
                           THEN NotFoundResponse(crate_pubkey)
                      ELSE IF crate_pubkey \notin DOMAIN graph.crates
                           THEN FailureResponse("get-crate-history")
                      ELSE CrateHistoryResponse(graph, crate_pubkey)
    /\ pc' = IF pc = "error" THEN "failed" ELSE "responded"
    /\ UNCHANGED <<crates, i, work, graph, prev, calls, store, reader>>

Next ==
    \/ FetchAccount
    \/ FetchReturn
    \/ IndexStep
    \/ IndexDone
    \/ SeedStep
    \/ SeedDone
    \/ BfsStep
    \/ BfsDone
    \/ FallbackStep
    \/ FallbackDone
    \/ LineageStep
    \/ Assemble
    \/ Refetch
    \/ FetchFail
    \/ FetchReturnEmpty
    \/ GetAllCrates
    \/ GetCrateHistory

Spec == Init /\ [][Next]_vars

NextOpaque ==
    \/ FetchOpaqueAccount
    \/ FetchReturn
    \/ IndexStep
    \/ IndexDone
    \/ SeedStep
    \/ SeedDone
    \/ BfsStep
    \/ BfsDone
    \/ FallbackStep
    \/ FallbackDone
    \/ LineageStep
    \/ Assemble
    \/ Refetch
    \/ FetchFail
    \/ FetchReturnEmpty
    \/ GetAllCrates
    \/ GetCrateHistory

SpecOpaque == Init /\ [][NextOpaque]_vars

NextPair ==
    \/ PairCall
    \/ PairIndexStep
    \/ PairIndexDone
    \/ PairSeedStep
    \/ PairSeedDone
    \/ PairBfsStep
    \/ PairBfsDone
    \/ PairFallbackStep
    \/ PairFallbackDone
    \/ PairLineageStep
    \/ PairReturn

SpecPair == Init /\ [][NextPair]_vars

NextLedger ==
    \/ FetchLedger
    \/ FetchReturn
    \/ IndexStep
    \/ IndexDone
    \/ SeedStep
    \/ SeedDone
    \/ BfsStep
    \/ BfsDone
    \/ FallbackStep
    \/ FallbackDone
    \/ LineageStep
    \/ Assemble

SpecLedger == Init /\ [][NextLedger]_vars

NextReader ==
    \/ ReaderRequest
    \/ ReaderBulkFail
    \/ ReaderStep
    \/ ReaderReturn

SpecReader == Init /\ [][NextReader]_vars

\* ------------------------------------------------------------------ claims
Done == pc = "done"

InputKeys == {crates[n].pubkey : n \in 1..Len(crates)}

UniqueKeys == \A a, b \in 1..Len(crates) : a # b => crates[a].pubkey # crates[b].pubkey

\* the record that comes last in input order among those with key k
LastOccurrence(k) ==
    crates[CHOOSE n \in 1..Len(crates) :
             /\ crates[n].pubkey = k
             /\ \A m \in 1..Len(crates) : crates[m].pubkey = k => m <= n]

Nodes == DOMAIN graph.crates

ParentsOf(k) == Range(graph.crates[k].parent_crates)

\* C1: after a build, a key is in the returned root set iff its node's
\* is_root flag is true, for any input, duplicate keys included.
C1_RootSetMatchesIsRoot ==
    Done => \A k \in Nodes : (k \in graph.root_crates) <=> graph.crates[k].is_root

\* keys reached from k by exactly n hops along parents edges
RECURSIVE ParentHops(_, _)
ParentHops(k, n) ==
    IF n = 0 THEN {k}
    ELSE UNION {ParentsOf(x) \cap Nodes : x \in ParentHops(k, n - 1)}

AllParentsPresent == \A k \in Nodes : ParentsOf(k) \subseteq Nodes

Acyclic == \A k \in Nodes : \A n \in 1..Cardinality(Nodes) : k \notin ParentHops(k, n)

\* no duplicate key, no missing parent, no cycle: no fallback of any kind applies
WellFormed == UniqueKeys /\ AllParentsPresent /\ Acyclic

\* shortest number of parents hops from k to a record without parents
ParentDistance(k) ==
    SetMin({n \in 0..Cardinality(Nodes) :
              \E x \in ParentHops(k, n) : graph.crates[x].parent_crates = <<>>})

\* C2: for acyclic input with unique keys and all parents present, every
\* depth is the shortest number of parents hops to a root, whatever the
\* children lists and the input order.
C2_DepthIsParentDistance ==
    (Done /\ WellFormed)
        => \A k \in Nodes : graph.crates[k].depth = ParentDistance(k)

\* the top-level trace of k found no path and returned [[k]] as its endpoint
AllCycleFallback(k) ==
    /\ ~crate_map[k].is_root
    /\ crate_map[k].parent_crates # <<>>
    /\ TraceParents(k, crate_map[k].parent_crates, 1, {k}) = <<>>

\* C3: for every key not triggering the all-cycle fallback, the stored
\* lineage starts at a member of the root set and ends at the key.  Stated on
\* well-formed input, where no key ends at an orphan or inside a cycle, so
\* that only the direction of the stored sequence decides it.
C3_LineageRootToNode ==
    (Done /\ WellFormed) => \A k \in Nodes :
        ~AllCycleFallback(k) =>
            /\ Head(graph.lineages[k]) \in graph.root_crates
            /\ Last(graph.lineages[k]) = k

\* C4: two builds from permutations of the same records return the same
\* root set, the same depths and the same lineages (cycles, missing parents
\* and inconsistent children lists included).  Stated for snapshots with
\* unique keys, so that the overwrite of a duplicate key plays no part.
C4_OrderIndependent ==
    (Done /\ prev # NoGraph /\ UniqueKeys) =>
        /\ graph.root_crates = prev.root_crates
        /\ \A k \in Nodes : graph.crates[k].depth = prev.crates[k].depth
        /\ graph.lineages = prev.lineages

\* C5: total_crates is the number of distinct input keys and the size of the
\* node map and of the lineage map.
C5_TotalCrates ==
    Done =>
        /\ graph.total_crates = Cardinality(InputKeys)
        /\ graph.total_crates = Cardinality(DOMAIN graph.crates)
        /\ graph.total_crates = Cardinality(DOMAIN graph.lineages)

C5_Witness ==
    /\ Done
    /\ Cardinality(InputKeys) >= 2
    /\ Len(crates) > Cardinality(InputKeys)

\* C6: every key of the returned root set has depth 0.
C6_RootDepthZero ==
    Done => \A r \in graph.root_crates : graph.crates[r].depth = 0

\* a root is listed among the children of another crate the BFS has expanded
C6_Witness ==
    /\ Done
    /\ \E r \in graph.root_crates : \E k \in visited \ {r} :
          r \in Range(graph.crates[k].child_crates)

\* C7: for every node reached by the forward breadth-first pass, the lineage
\* has depth + 1 keys.
C7_LineageLenIsDepthPlusOne ==
    Done => \A k \in visited : Len(graph.lineages[k]) = graph.crates[k].depth + 1

\* C8: with duplicate keys the node carries the fields of the last
\* occurrence, and nothing of an earlier occurrence survives in the graph.
C8_LastOccurrenceWins ==
    Done => \A k \in Nodes :
        LET last == LastOccurrence(k)
            node == graph.crates[k]
        IN /\ node.weight = last.weight
           /\ node.parent_crates = last.parent_crates
           /\ node.child_crates = last.child_crates
           /\ node.is_root = (last.parent_crates = <<>>)
           /\ k \in graph.root_crates => last.parent_crates = <<>>

\* C9: for every key whose parents are all present, is_root holds exactly
\* when the parents list is empty.
C9_IsRootIffNoParents ==
    Done => \A k \in Nodes :
        ParentsOf(k) \subseteq Nodes =>
            (graph.crates[k].is_root <=> graph.crates[k].parent_crates = <<>>)

\* the unvisited-node pass has handled a crate whose parents are all present,
\* next to a crate without parents
C9_Witness ==
    /\ Done
    /\ \E k \in Nodes \ visited :
          /\ graph.crates[k].parent_crates # <<>>
          /\ ParentsOf(k) \subseteq Nodes
          /\ ~graph.crates[k].is_root
    /\ \E r \in Nodes : graph.crates[r].parent_crates = <<>> /\ graph.crates[r].is_root

\* candidate paths of k other than the stored one that have its length
TiedCandidates(k) ==
    {q \in Range(trace_to_roots(k, {})) :
        Len(q) = Len(graph.lineages[k]) /\ q # graph.lineages[k]}

FirstDifference(p, q) ==
    CHOOSE d \in 1..Len(p) : p[d] # q[d] /\ \A e \in 1..(d - 1) : p[e] = q[e]

Position(x, s) == CHOOSE n \in 1..Len(s) : s[n] = x /\ \A m \in 1..(n - 1) : s[m] # x

\* C10 as claimed: among candidates of the same minimal length the stored
\* lineage has the smallest key at the first point of difference (paths read
\* from the root), whatever the order inside the parents lists.  Stated on
\* well-formed input, where every candidate ends at a root.
C10_TieBreakSmallestKey ==
    (Done /\ WellFormed) => \A k \in Nodes : \A q \in TiedCandidates(k) :
        LET p == Reverse(graph.lineages[k])
            d == FirstDifference(p, Reverse(q))
        IN p[d] < Reverse(q)[d]

\* C10 amended: the stored lineage is a candidate of minimal length, and where
\* it first differs from another candidate of that length (walking from the
\* key), it goes through the parent listed earlier in the parents list.
C10_TieBreakFirstListedParent ==
    Done => \A k \in Nodes :
        /\ graph.lineages[k] \in Range(trace_to_roots(k, {}))
        /\ \A q \in Range(trace_to_roots(k, {})) : Len(graph.lineages[k]) <= Len(q)
        /\ \A q \in TiedCandidates(k) :
              LET p == graph.lineages[k]
                  d == FirstDifference(p, q)
                  parent_crates == graph.crates[p[d - 1]].parent_crates
              IN /\ d > 1
                 /\ Position(p[d], parent_crates) < Position(q[d], parent_crates)

\* a tie in which the stored lineage goes through the larger key
C10_Witness ==
    /\ Done
    /\ WellFormed
    /\ \E k \in Nodes : \E q \in TiedCandidates(k) :
          graph.lineages[k][FirstDifference(graph.lineages[k], q)]
              > q[FirstDifference(graph.lineages[k], q)]

\* numbers of parents hops after which k reaches a member of the returned root set
RootHopCounts(k) ==
    {n \in 0..Cardinality(Nodes) : ParentHops(k, n) \cap graph.root_crates # {}}

\* C11: the stored lineage is a shortest sequence connecting a root to the key
\* along parents edges: no path along present parents from the key back to a
\* member of the root set has fewer keys, and the lineage itself reaches a
\* root (at either end) whenever such a path exists.  Stated for snapshots
\* with unique keys, where the root set is exactly the flagged roots.
C11_LineageIsShortestRootPath ==
    (Done /\ UniqueKeys) => \A k \in Nodes :
        RootHopCounts(k) # {} =>
            /\ Len(graph.lineages[k]) <= SetMin(RootHopCounts(k)) + 1
            /\ \/ Head(graph.lineages[k]) \in graph.root_crates
               \/ Last(graph.lineages[k]) \in graph.root_crates

\* a record with parents none of which is present in the snapshot
Orphan(k) == graph.crates[k].parent_crates # <<>> /\ ParentsOf(k) \cap Nodes = {}

\* C12 as claimed: an orphan is promoted to a synthetic root: is_root is
\* true, its key is in the root set and its depth is 0.
C12_OrphanPromoted ==
    Done => \A k \in Nodes :
        Orphan(k) =>
            /\ graph.crates[k].is_root
            /\ k \in graph.root_crates
            /\ graph.crates[k].depth = 0

\* C12 amended: an orphan is not promoted: is_root stays false; with unique
\* keys it is not in the root set; the unvisited-node pass gives it depth 0,
\* and an orphan the breadth-first pass reached through a children list keeps
\* the depth of that pass, which is at least 1 unless the key is in the root set.
C12_OrphanNotPromoted ==
    Done => \A k \in Nodes :
        Orphan(k) =>
            /\ ~graph.crates[k].is_root
            /\ UniqueKeys => k \notin graph.root_crates
            /\ k \notin visited => graph.crates[k].depth = 0
            /\ k \in visited \ graph.root_crates => graph.crates[k].depth >= 1

\* the unvisited-node pass has handled an orphan next to another crate
C12_Witness ==
    /\ Done
    /\ UniqueKeys
    /\ \E k \in Nodes \ visited : Orphan(k) /\ graph.crates[k].depth = 0
    /\ Cardinality(Nodes) >= 2

\* f and g form a two-record parents cycle that the breadth-first pass did not reach
UnreachedTwoCycle(f, g) ==
    /\ f # g
    /\ graph.crates[f].parent_crates = <<g>>
    /\ graph.crates[g].parent_crates = <<f>>
    /\ f \notin visited
    /\ g \notin visited

Ancestry(k) == UNION {ParentHops(k, n) : n \in 0..Cardinality(Nodes)}

\* no branch from k reaches a root, a record without parents or an orphan:
\* every branch runs into a cycle
OnlyCycles(k) ==
    \A x \in Ancestry(k) :
        /\ ~graph.crates[x].is_root
        /\ x \notin graph.root_crates
        /\ ParentsOf(x) \cap Nodes # {}

\* C14: for a key all of whose parent branches end in a cycle the stored
\* lineage is the single-element sequence holding that key.
C14_CycleLineageSingleton ==
    Done => \A k \in Nodes : OnlyCycles(k) => graph.lineages[k] = <<k>>

\* a get_crate_history request answered after the build returned a graph
HistoryAnswered ==
    /\ pc = "responded"
    /\ graph # NoGraph
    /\ response.endpoint = "get-crate-history"

\* C15: get_crate_history answers 404 without any history payload when the
\* requested key is absent from the successfully built graph, and answers a
\* success response whose current_crate, depth and is_root are those of
\* graph.crates[key] when the key is present.
C15_NotFoundOrNode ==
    HistoryAnswered =>
        /\ "crate_pubkey" \in DOMAIN response
        /\ IF response.crate_pubkey \in Nodes
           THEN /\ response.status = 200
                /\ response.success
                /\ response.current_crate = graph.crates[response.crate_pubkey]
                /\ response.depth = graph.crates[response.crate_pubkey].depth
                /\ response.is_root = graph.crates[response.crate_pubkey].is_root
           ELSE /\ response.status = 404
                /\ ~response.success
                /\ DOMAIN response \cap {"history", "lineage_path", "current_crate",
                                         "root_crate", "depth", "is_root"} = {}

\* a request for a key that the non-empty built graph does not hold
C15_Witness ==
    /\ HistoryAnswered
    /\ Nodes # {}
    /\ response.status = 404
    /\ response.crate_pubkey \notin Nodes

\* C16: in a successful get_crate_history response, history is lineage_path
\* resolved element by element in root-to-node order: same length,
\* history[n] is the node whose key is lineage_path[n], the last element is
\* the requested node and root_crate is the first element.  Stated for
\* well-formed snapshots (unique keys, all parents present, no cycle).
C16_HistoryResolvesLineagePath ==
    (HistoryAnswered /\ response.status = 200 /\ WellFormed) =>
        /\ Len(response.history) = Len(response.lineage_path)
        /\ \A n \in 1..Len(response.history) :
              response.history[n] = graph.crates[response.lineage_path[n]]
        /\ Last(response.history) = graph.crates[response.crate_pubkey]
        /\ response.root_crate = response.history[1]

\* C17: the build never raises: whatever the parents and children keys
\* missing from the snapshot, the duplicate keys, the self-parent records and
\* the parent cycles, no step looks up a key that is absent from crate_map
\* (seeding, popleft, iteration of the index), no build ends in an error, and
\* a finished build has returned a graph.
C17_BuildNeverRaises ==
    /\ pc # "error"
    /\ root_crates \subseteq DOMAIN crate_map
    /\ \A n \in 1..Len(queue) : queue[n][1] \in DOMAIN crate_map
    /\ Range(order) = DOMAIN crate_map
    /\ Done => graph # NoGraph

\* a returned graph for a snapshot with a duplicate key, a child key missing
\* on a node the breadth-first pass visited, a self-parent record and a
\* parent key missing
C17_Witness ==
    /\ Done
    /\ graph # NoGraph
    /\ ~UniqueKeys
    /\ \E k \in Nodes \cap visited : Range(graph.crates[k].child_crates) \ Nodes # {}
    /\ \E k \in Nodes : k \in ParentsOf(k) /\ ParentsOf(k) \ Nodes # {}

\* the fields of a node or record other than is_root and depth
CopiedFields(r) ==
    [pubkey |-> r.pubkey, weight |-> r.weight,
     parent_crates |-> r.parent_crates, child_crates |-> r.child_crates]

\* C18: every field of a node other than is_root and depth equals the field
\* of the input record indexed under its key (the last record with that
\* key): in every state of the seeding, breadth-first, fallback and lineage
\* passes, and in the returned graph.
C18_CopiedFieldsUnchanged ==
    /\ pc \in {"seed", "bfs", "fallback", "lineage"} =>
          \A k \in DOMAIN crate_map :
              CopiedFields(crate_map[k]) = CopiedFields(LastOccurrence(k))
    /\ graph # NoGraph =>
          \A k \in Nodes : CopiedFields(graph.crates[k]) = CopiedFields(LastOccurrence(k))

\* a returned node whose depth the passes set, under a key that two records
\* with different weights share
C18_Witness ==
    /\ Done
    /\ \E k \in Nodes :
          /\ graph.crates[k].depth >= 1
          /\ \E a, b \in 1..Len(crates) :
                /\ crates[a].pubkey = k
                /\ crates[b].pubkey = k
                /\ crates[a].weight # crates[b].weight

PayloadFields ==
    {"graph", "history", "lineage_path", "current_crate", "root_crate", "depth", "is_root"}

\* a graph that covers the whole snapshot
CompleteGraph(g) ==
    /\ DOMAIN g.crates = InputKeys
    /\ DOMAIN g.lineages = InputKeys
    /\ g.total_crates = Cardinality(InputKeys)
    /\ g.root_crates \subseteq InputKeys

\* C19: a request whose fetch or build failed is answered with an error
\* response that carries no graph and no history; a success response carries
\* the graph of the whole snapshot (get_all_crates) or a history that
\* resolves every key of the lineage (get_crate_history), never a partial one.
C19_FailureIsAtomic ==
    /\ pc = "failed" =>
          /\ response.status = 500
          /\ ~response.success
          /\ DOMAIN response \cap PayloadFields = {}
    /\ (pc = "responded" /\ response.success) =>
          IF response.endpoint = "get-all-crates"
          THEN CompleteGraph(response.graph)
          ELSE /\ Len(response.history) = Len(response.lineage_path)
               /\ Last(response.history) = response.current_crate

\* the fetch failed after it had decoded some accounts
C19_Witness ==
    /\ pc = "failed"
    /\ crates # <<>>
    /\ response.status = 500

\* C20: invocations of build_supply_chain_graph whose steps are interleaved
\* arbitrarily each return exactly the graph they return when run alone on
\* their snapshot, and none of them raises.
C20_InterleavedBuildsIndependent ==
    \A j \in Calls :
        /\ calls[j].pc # "error"
        /\ calls[j].pc = "done" => calls[j].graph = RunAlone(calls[j].crates)

\* the first invocation has returned a graph with a traversed node while the
\* second, on a different snapshot, is in the middle of its traversal
C20_Witness ==
    /\ calls[1].pc = "done"
    /\ \E k \in DOMAIN calls[1].graph.crates : calls[1].graph.crates[k].depth >= 1
    /\ calls[2].pc = "bfs"
    /\ store[Slot(2)].queue # <<>>
    /\ calls[2].crates # calls[1].crates

\* an account the claim calls malformed: unexpected data type, fewer bytes
\* than the discriminator, or data that fails to decode
Malformed(account_info) ==
    \/ account_info.data_type \notin {"list", "str"}
    \/ account_info.data_type = "str" /\ ~account_info.valid_base64
    \/ account_info.length < DiscriminatorLen
    \/ ~account_info.decodable

\* the decoded entries of the accounts examined so far, in their order
RECURSIVE DecodedUpTo(_)
DecodedUpTo(n) ==
    IF n = 0 THEN <<>>
    ELSE IF Malformed(reader.accounts[n]) THEN DecodedUpTo(n - 1)
    ELSE Append(DecodedUpTo(n - 1), CrateDictOf(reader.accounts[n]))

Building == pc \in {"index", "seed", "bfs", "fallback", "lineage"}

\* the passes still to run
PassesLeft ==
    CASE pc = "index" -> 5
      [] pc = "seed" -> 4
      [] pc = "bfs" -> 3
      [] pc = "fallback" -> 2
      [] pc = "lineage" -> 1
      [] OTHER -> 0

\* the work left in the running pass: records to index, roots to seed, keys
\* to visit (twice) plus queue entries to pop, keys to settle, keys to trace
WorkLeft ==
    CASE pc = "index" -> Len(crates) + 1 - i
      [] pc = "seed" -> Cardinality(root_crates \ seeded)
      [] pc = "bfs" -> 2 * Cardinality(DOMAIN crate_map \ visited) + Len(queue)
      [] pc \in {"fallback", "lineage"} -> Len(order) + 1 - i
      [] OTHER -> 0

\* C22: the build terminates on every input, cycles of parents or children
\* and self-references included: every step of a running build strictly
\* decreases the pair (passes left, work left in the pass), which never goes
\* below (0, 0); in the breadth-first pass each iteration pops one entry and
\* enqueues only keys it marks visited, and each trace of the lineage pass
\* returns.
C22_BuildTerminates ==
    [][Building =>
          /\ WorkLeft >= 0
          /\ WorkLeft' >= 0
          /\ \/ PassesLeft' < PassesLeft
             \/ PassesLeft' = PassesLeft /\ WorkLeft' < WorkLeft]_vars

\* a returned graph for a snapshot where the breadth-first pass visited a
\* node on a children cycle and another record is its own parent
C22_Witness ==
    /\ Done
    /\ \E k \in Nodes \cap visited :
          \E c \in Range(graph.crates[k].child_crates) \cap Nodes :
              k \in Range(graph.crates[c].child_crates)
    /\ \E k \in Nodes : k \in ParentsOf(k)

\* the keys that n children hops lead to from the seeded root set, along
\* children entries that exist in the index
RECURSIVE ChildHops(_)
ChildHops(n) ==
    IF n = 0 THEN graph.root_crates \cap Nodes
    ELSE {c \in Nodes : \E k \in ChildHops(n - 1) : c \in Range(graph.crates[k].child_crates)}

ChildHopCounts(k) == {n \in 0..Cardinality(Nodes) : k \in ChildHops(n)}

\* C23: every node that children hops lead to from some member of the root
\* set has, in the returned graph, the minimum number of such hops as depth.
C23_DepthIsChildDistance ==
    Done => \A k \in Nodes :
                ChildHopCounts(k) # {} =>
                    graph.crates[k].depth = SetMin(ChildHopCounts(k))

\* a snapshot without self-reference where a node one hop from a root is
\* also reached by a chain of two hops
C23_Witness ==
    /\ Done
    /\ \A x \in Nodes : x \notin Range(graph.crates[x].child_crates)
    /\ \E k \in Nodes : ChildHopCounts(k) = {1, 2} /\ graph.crates[k].depth = 1

\* C24: in each iteration of the breadth-first loop, the keys newly marked
\* visited are children of the popped node, each gets the popped node's depth
\* plus one and is enqueued exactly once behind the entries already waiting;
\* a key that was visited stays visited and keeps its depth.
C24_DiscoveredOnce ==
    [][(pc = "bfs" /\ queue # <<>>) =>
          LET current_pubkey == Head(queue)[1]
              discovered == visited' \ visited
              appended == SubSeq(queue', Len(queue), Len(queue'))
          IN /\ \A x \in visited :
                   x \in visited' /\ crate_map'[x].depth = crate_map[x].depth
             /\ \A c \in discovered :
                   /\ c \in Range(crate_map[current_pubkey].child_crates)
                   /\ crate_map'[c].depth = crate_map[current_pubkey].depth + 1
                   /\ crate_map'[c].depth = Head(queue)[2] + 1
             /\ SubSeq(queue', 1, Len(queue) - 1) = Tail(queue)
             /\ {appended[n][1] : n \in 1..Len(appended)} = discovered
             /\ Len(appended) = Cardinality(discovered)]_vars

\* a returned graph where a node lists a child that another node had
\* discovered before, and the child kept the depth of its first discovery
C24_Witness ==
    /\ Done
    /\ \E p, c \in Nodes \cap visited :
          /\ p # c
          /\ c \in Range(graph.crates[p].child_crates)
          /\ ~graph.crates[c].is_root
          /\ graph.crates[p].depth = 1
          /\ graph.crates[c].depth = 1

\* C25: a node that the breadth-first pass left unvisited and that has a
\* parent present in the index has, in the returned graph, depth 1 + the
\* minimum of the depths its present parents have in the returned graph.
\* Stated for well-formed snapshots (unique keys, all parents present, no
\* cycle), where depths that satisfy the equation exist.
C25_FallbackDepthFromFinalDepths ==
    (Done /\ WellFormed) =>
        \A k \in Nodes \ visited :
            ParentsOf(k) \cap Nodes # {} =>
                graph.crates[k].depth =
                    1 + SetMin({graph.crates[p].depth : p \in ParentsOf(k) \cap Nodes})

\* the end of the stored lineage of k away from k (lineages are stored from
\* the key back to the endpoint)
LineageEnd(k) == Last(graph.lineages[k])

\* C26: a branch that runs into a key already on the current path gives no
\* candidate path, so no stored lineage of two or more keys ends at a node
\* that is neither a root nor a node without a parent in the index, that is,
\* at a node where the trace stopped only because its branches hit a cycle.
C26_NoLineageEndsInCycle ==
    Done => \A k \in Nodes :
                Len(graph.lineages[k]) >= 2 =>
                    \/ graph.crates[LineageEnd(k)].is_root
                    \/ ParentsOf(LineageEnd(k)) \cap Nodes = {}

\* C27: a key from which parents entries lead back to a member of the root
\* set has a stored lineage with the key at one end and a member of the root
\* set at the other; a branch that ends at an orphan or inside a cycle is
\* never preferred.  Stated for snapshots with unique keys.
C27_LineageReachesRoot ==
    (Done /\ UniqueKeys) =>
        \A k \in Nodes :
            RootHopCounts(k) # {} =>
                \/ /\ Head(graph.lineages[k]) = k
                   /\ LineageEnd(k) \in graph.root_crates
                \/ /\ LineageEnd(k) = k
                   /\ Head(graph.lineages[k]) \in graph.root_crates

\* path is a chain of parents entries from its first key to its last
ParentChain(path) ==
    \A n \in 1..(Len(path) - 1) :
        path[n] \in Nodes /\ path[n + 1] \in Range(graph.crates[path[n]].parent_crates)

\* C28: every stored lineage is a simple path: non-empty, with the key it is
\* stored under at one end, no key twice, only keys of the node map, and each
\* element lists the next one away from the key among its parents; the
\* history of a successful get_crate_history response therefore has as many
\* elements as the lineage path.
C28_LineageIsSimplePath ==
    /\ Done =>
          \A k \in Nodes :
              LET path == graph.lineages[k]
              IN /\ path # <<>>
                 /\ \A a, b \in 1..Len(path) : a # b => path[a] # path[b]
                 /\ Range(path) \subseteq Nodes
                 /\ \/ Head(path) = k /\ ParentChain(path)
                    \/ Last(path) = k /\ ParentChain(Reverse(path))
    /\ (HistoryAnswered /\ response.status = 200) =>
          Len(response.history) = Len(response.lineage_path)

\* a stored lineage of three keys for a node with two parents
C28_Witness ==
    /\ Done
    /\ \E k \in Nodes :
          /\ Len(graph.lineages[k]) = 3
          /\ Len(graph.crates[k].parent_crates) = 2

\* C29 as claimed: in the returned graph every depth is a non-negative
\* integer strictly smaller than total_crates.
C29_DepthBelowTotal ==
    Done => \A k \in Nodes :
                /\ graph.crates[k].depth \in Nat
                /\ graph.crates[k].depth < graph.total_crates

\* C29 as amended: from the end of indexing on and in the returned graph,
\* every depth is a non-negative integer not larger than the number of
\* nodes, and strictly smaller once the breadth-first pass has visited a node.
C29_DepthAtMostTotal ==
    /\ pc \in {"seed", "bfs", "fallback", "lineage"} =>
          \A k \in DOMAIN crate_map :
              /\ crate_map[k].depth \in Nat
              /\ crate_map[k].depth <= Cardinality(DOMAIN crate_map)
              /\ visited # {} => crate_map[k].depth < Cardinality(DOMAIN crate_map)
    /\ Done =>
          \A k \in Nodes :
              /\ graph.crates[k].depth \in Nat
              /\ graph.crates[k].depth <= graph.total_crates
              /\ visited # {} => graph.crates[k].depth < graph.total_crates

\* a returned graph without any root where the unvisited-node pass gave a
\* node the depth total_crates
C29_Witness ==
    /\ Done
    /\ graph.total_crates >= 2
    /\ visited = {}
    /\ \E k \in Nodes : graph.crates[k].depth = graph.total_crates

\* the unvisited-node pass is about to take its branch "no parents": set
\* is_root and add the key to the root set
PromotionPending ==
    /\ pc = "fallback"
    /\ i <= Len(order)
    /\ order[i] \notin visited
    /\ ~HasParents(crate_map[order[i]])

\* C30: for a snapshot with unique keys, no step after the indexing pass
\* changes the root set or an is_root flag, and the unvisited-node pass never
\* reaches its branch that promotes a record without parents.
C30_RootsFixedByIndexing ==
    [][(UniqueKeys /\ pc \in {"seed", "bfs", "fallback", "lineage"}) =>
          /\ ~PromotionPending
          /\ root_crates' = root_crates
          /\ \A k \in DOMAIN crate_map :
                crate_map'[k].is_root = crate_map[k].is_root
          /\ pc' = "done" =>
                /\ graph'.root_crates = root_crates
                /\ \A k \in DOMAIN crate_map :
                      graph'.crates[k].is_root = crate_map[k].is_root]_vars

\* a returned graph, unique keys, with a root and a node that the
\* breadth-first pass did not visit and the unvisited-node pass handled
C30_Witness ==
    /\ Done
    /\ UniqueKeys
    /\ graph.root_crates # {}
    /\ Nodes \ visited # {}

=============================================================================
